---- MODULE Spec2Model ----
(***************************************************************************)
(* PlanVenture API: token issuance (utils/auth.py), token verification and *)
(* the request gates (utils/middleware.py), with the application           *)
(* configuration of app.py and the users table of models/user.py.          *)
(*                                                                         *)
(* A signed token is modelled symbolically: it carries the key it was      *)
(* signed with, and a signature verifies exactly when the verifier's key   *)
(* is that key.  Python values are tagged records so that None, int, str   *)
(* and bool stay distinct, as isinstance() and truthiness need.            *)
(***************************************************************************)
EXTENDS Integers, Sequences, FiniteSets, TLC

\* ---------------------------------------------------------------- bounds
MaxUsers == 1
MaxHours == 1
MaxTrips == 1
MaxDay == 2

\* ------------------------------------------------------ program constants
ACCESS_TTL == 3600
REFRESH_TTL == 2592000
RESET_TTL == 3600
EXPIRES_IN == 3600

VARIABLES config, users, now, subsec, issued, trips, resp

vars == <<config, users, now, subsec, issued, trips, resp>>

\* ---------------------------------------------------------- Python values
PyNone == [none |-> TRUE]
PyInt(n) == [int |-> n]
PyStr(s) == [str |-> s]
PyBool(b) == [bool |-> b]

isinstance_str(v) == "str" \in DOMAIN v

\* Python truthiness: `if v:` / `if not v:`
Truthy(v) ==
    IF "none" \in DOMAIN v THEN FALSE
    ELSE IF "int" \in DOMAIN v THEN v.int # 0
    ELSE IF "str" \in DOMAIN v THEN v.str # ""
    ELSE IF "bool" \in DOMAIN v THEN v.bool
    ELSE TRUE

Digits == <<"0", "1", "2", "3", "4", "5", "6", "7", "8", "9">>

\* str(n) for a non-negative integer: its decimal digits
RECURSIVE str(_)
str(n) == IF n < 10 THEN Digits[n + 1] ELSE str(n \div 10) \o Digits[(n % 10) + 1]

\* The integers whose literals int() is asked to recognise in this model
ParseRange == 0..(MaxUsers + 1)

\* The strings Python's int() reads as n: optional surrounding whitespace,
\* an optional sign, leading zeros
IntLiterals(n) ==
    {pre \o sign \o zero \o str(n) \o post :
        pre \in {"", " "}, sign \in {"", "+"}, zero \in {"", "0"}, post \in {"", " "}}

\* int(s): the parsed integer, or ValueError
int(s) ==
    IF \E n \in ParseRange : s \in IntLiterals(n)
    THEN [ok |-> TRUE, value |-> CHOOSE n \in ParseRange : s \in IntLiterals(n)]
    ELSE [ok |-> FALSE, exc |-> "ValueError", msg |-> "invalid literal for int()"]

\* dict.get(key): the value, or None
get(d, k) == IF k \in DOMAIN d THEN d[k] ELSE PyNone

EmptyDict == <<>>

Raise(e, m) == [ok |-> FALSE, exc |-> e, msg |-> m]

\* ------------------------------------------------------------ users table
UserIds == 1..MaxUsers

Email(u) == "user" \o str(u) \o "@b.com"

\* A row of the users table (models/user.py)
User(u, active) == [user_id |-> u, email_address |-> Email(u), is_active |-> active]

\* The table maps each user_id it holds to the row's is_active flag; Row(store, u)
\* is the row itself
Row(store, u) == User(u, store[u])

\* ------------------------------------------------------------------ clock
\* The clock reads now whole seconds and subsec half seconds more (0 or 1).
\* jwt.encode writes a datetime as its whole seconds (timegm of the time tuple)
\* and jwt.decode compares the whole-second claims with the clock, so the codec
\* below is given the whole seconds only: exp <= now + subsec/2 iff exp <= now
\* The seconds the clock visits: the whole hours and the second before each
Instants ==
    {h * ACCESS_TTL + j : h \in 0..MaxHours, j \in {0, ACCESS_TTL - 1}}

\* ------------------------------------------------------- credential codec
\* jwt.encode(payload, key, algorithm='HS256')
jwt_encode(payload, key) ==
    [form |-> "jws", alg |-> "HS256", key |-> key, payload |-> payload]

\* A string that is no JWS at all
Garbage == [form |-> "garbage"]

\* PyJWT's exception classes below jwt.InvalidTokenError
InvalidTokenErrors ==
    {"DecodeError", "InvalidSignatureError", "ExpiredSignatureError",
     "ImmatureSignatureError", "InvalidAlgorithmError"}

\* jwt.decode that never looks at exp
jwt_decode_no_exp(token, key, t) ==
    IF token.form # "jws" THEN Raise("DecodeError", "Not enough segments")
    ELSE IF token.alg # "HS256"
         THEN Raise("InvalidAlgorithmError", "The specified alg value is not allowed")
    ELSE IF token.key # key
         THEN Raise("InvalidSignatureError", "Signature verification failed")
    ELSE IF "nbf" \in DOMAIN token.payload /\ token.payload["nbf"].int > t
         THEN Raise("ImmatureSignatureError", "The token is not yet valid (nbf)")
    ELSE [ok |-> TRUE, payload |-> token.payload]

\* jwt.decode with options={"verify_signature": False}
jwt_decode_no_sig(token, key, t) ==
    IF token.form # "jws" THEN Raise("DecodeError", "Not enough segments")
    ELSE [ok |-> TRUE, payload |-> token.payload]

\* jwt.decode that validates the registered claims before the signature
jwt_decode_claims_first(token, key, t) ==
    IF token.form # "jws" THEN Raise("DecodeError", "Not enough segments")
    ELSE IF token.alg # "HS256"
         THEN Raise("InvalidAlgorithmError", "The specified alg value is not allowed")
    ELSE IF "nbf" \in DOMAIN token.payload /\ token.payload["nbf"].int > t
         THEN Raise("ImmatureSignatureError", "The token is not yet valid (nbf)")
    ELSE IF "exp" \in DOMAIN token.payload /\ token.payload["exp"].int <= t
         THEN Raise("ExpiredSignatureError", "Signature has expired")
    ELSE IF token.key # key
         THEN Raise("InvalidSignatureError", "Signature verification failed")
    ELSE [ok |-> TRUE, payload |-> token.payload]

\* jwt.decode(token, key, algorithms=['HS256']) at time t: the structure and the
\* algorithm first, then the signature, then the registered claims nbf and exp
jwt_decode(token, key, t) ==
    IF token.form # "jws" THEN Raise("DecodeError", "Not enough segments")
    ELSE IF token.alg # "HS256"
         THEN Raise("InvalidAlgorithmError", "The specified alg value is not allowed")
    ELSE IF token.key # key
         THEN Raise("InvalidSignatureError", "Signature verification failed")
    ELSE IF "nbf" \in DOMAIN token.payload /\ token.payload["nbf"].int > t
         THEN Raise("ImmatureSignatureError", "The token is not yet valid (nbf)")
    ELSE IF "exp" \in DOMAIN token.payload /\ token.payload["exp"].int <= t
         THEN Raise("ExpiredSignatureError", "Signature has expired")
    ELSE [ok |-> TRUE, payload |-> token.payload]

\* dict.update(): the entries of d2 replace those of d1
update(d1, d2) ==
    [k \in (DOMAIN d1) \cup (DOMAIN d2) |-> IF k \in DOMAIN d2 THEN d2[k] ELSE d1[k]]

\* ---------------------------------------------------------- configuration
EnvValues == {"unset", "prod-secret"}

\* os.getenv(name, default)
getenv(value, default) == IF value = "unset" THEN default ELSE value

\* app.config after app.py has read the environment
app_config(env) ==
    [SECRET_KEY |-> getenv(env.SECRET_KEY, "dev-secret-key"),
     JWT_SECRET_KEY |-> getenv(env.JWT_SECRET_KEY, "jwt-secret-key")]

\* ----------------------------------------------------------- token issuer
\* @jwt.additional_claims_loader
add_claims_to_jwt(identity) == [user_id |-> identity]

\* flask_jwt_extended's token encoder: the registered claims, then the claims
\* of the loader overridden by the caller's additional claims
encode_jwt(identity, token_type, claims, expires_delta, key, t) ==
    jwt_encode(
        update([type |-> PyStr(token_type), sub |-> identity,
                nbf |-> PyInt(t), exp |-> PyInt(t + expires_delta)],
               update(add_claims_to_jwt(identity), claims)),
        key)

\* create_access_token without expires_delta: the extension's default lifetime
\* of an access token, 15 minutes
create_access_token_default_expiry(identity, additional_claims, expires_delta, key, t) ==
    encode_jwt(identity, "access", additional_claims, 900, key, t)

create_access_token(identity, additional_claims, expires_delta, key, t) ==
    encode_jwt(identity, "access", additional_claims, expires_delta, key, t)

create_refresh_token(identity, expires_delta, key, t) ==
    encode_jwt(identity, "refresh", EmptyDict, expires_delta, key, t)

generate_tokens(user, cfg, t) ==
    LET additional_claims ==
            [user_id |-> PyInt(user.user_id),
             email |-> PyStr(user.email_address),
             is_active |-> PyBool(user.is_active)]
        access_token ==
            create_access_token(PyStr(str(user.user_id)), additional_claims,
                                ACCESS_TTL, cfg.JWT_SECRET_KEY, t)
        refresh_token ==
            create_refresh_token(PyStr(str(user.user_id)), REFRESH_TTL,
                                 cfg.JWT_SECRET_KEY, t)
    IN  [access_token |-> access_token,
         refresh_token |-> refresh_token,
         token_type |-> "Bearer",
         expires_in |-> EXPIRES_IN]

\* generate_password_reset_token with the lifetime of the refresh token
generate_password_reset_token_long(user, cfg, t) ==
    LET payload ==
            [user_id |-> PyInt(user.user_id),
             email |-> PyStr(user.email_address),
             exp |-> PyInt(t + REFRESH_TTL),
             type |-> PyStr("password_reset")]
    IN  jwt_encode(payload, cfg.SECRET_KEY)

generate_password_reset_token(user, cfg, t) ==
    LET payload ==
            [user_id |-> PyInt(user.user_id),
             email |-> PyStr(user.email_address),
             exp |-> PyInt(t + RESET_TTL),
             type |-> PyStr("password_reset")]
    IN  jwt_encode(payload, cfg.SECRET_KEY)

\* --------------------------------------------------------- token verifier
\* validate_token with the except clauses in the other order: ExpiredSignatureError
\* is an InvalidTokenError
validate_token_except_order(token, cfg, t) ==
    LET d == jwt_decode(token, cfg.JWT_SECRET_KEY, t)
    IN  IF d.ok
        THEN [valid |-> TRUE,
              user_id |-> get(d.payload, "sub"),
              email |-> get(d.payload, "email"),
              exp |-> get(d.payload, "exp")]
        ELSE IF d.exc \in InvalidTokenErrors
             THEN [valid |-> FALSE, error |-> "Invalid token"]
        ELSE [valid |-> FALSE, error |-> "Token validation error: " \o d.msg]

\* validate_token reporting the user_id claim in place of the subject
validate_token_user_id_claim(token, cfg, t) ==
    LET d == jwt_decode(token, cfg.JWT_SECRET_KEY, t)
    IN  IF d.ok
        THEN [valid |-> TRUE,
              user_id |-> get(d.payload, "user_id"),
              email |-> get(d.payload, "email"),
              exp |-> get(d.payload, "exp")]
        ELSE IF d.exc = "ExpiredSignatureError"
             THEN [valid |-> FALSE, error |-> "Token has expired"]
        ELSE IF d.exc \in InvalidTokenErrors
             THEN [valid |-> FALSE, error |-> "Invalid token"]
        ELSE [valid |-> FALSE, error |-> "Token validation error: " \o d.msg]

\* verify_password_reset_token without the check of the type claim
verify_password_reset_token_untyped(token, cfg, t) ==
    LET d == jwt_decode(token, cfg.SECRET_KEY, t)
    IN  IF d.ok THEN get(d.payload, "user_id") ELSE PyNone

\* validate_token with one except clause for every failure
validate_token_one_except(token, cfg, t) ==
    LET d == jwt_decode(token, cfg.JWT_SECRET_KEY, t)
    IN  IF d.ok
        THEN [valid |-> TRUE,
              user_id |-> get(d.payload, "sub"),
              email |-> get(d.payload, "email"),
              exp |-> get(d.payload, "exp")]
        ELSE [valid |-> FALSE, error |-> "Token validation error: " \o d.msg]

validate_token(token, cfg, t) ==
    LET d == jwt_decode(token, cfg.JWT_SECRET_KEY, t)
    IN  IF d.ok
        THEN [valid |-> TRUE,
              user_id |-> get(d.payload, "sub"),
              email |-> get(d.payload, "email"),
              exp |-> get(d.payload, "exp")]
        ELSE IF d.exc = "ExpiredSignatureError"
             THEN [valid |-> FALSE, error |-> "Token has expired"]
        ELSE IF d.exc \in InvalidTokenErrors
             THEN [valid |-> FALSE, error |-> "Invalid token"]
        ELSE [valid |-> FALSE, error |-> "Token validation error: " \o d.msg]

verify_password_reset_token(token, cfg, t) ==
    LET d == jwt_decode(token, cfg.SECRET_KEY, t)
    IN  IF d.ok
        THEN IF get(d.payload, "type") # PyStr("password_reset")
             THEN PyNone
             ELSE get(d.payload, "user_id")
        ELSE PyNone

\* ------------------------------------------------------------ the request
\* The Authorization header: absent, "Bearer <token>", or the bare "<token>"
NoHeader == [present |-> FALSE]
Bearer(token) == [present |-> TRUE, scheme |-> "Bearer", token |-> token]
Bare(token) == [present |-> TRUE, scheme |-> "", token |-> token]

\* flask.g before verify_jwt_in_request has stored a token in it
NoJwt == [set |-> FALSE]

\* A lookup that answers from the row as it was created
query_first_cached(store, user_id, dbUp) ==
    IF ~dbUp THEN Raise("OperationalError", "unable to open database file")
    ELSE [ok |-> TRUE,
          user |-> IF user_id \in DOMAIN store THEN User(user_id, TRUE) ELSE PyNone]

\* User.query.filter_by(user_id=<int>).first(): the row, None, or the store's error
query_first(store, user_id, dbUp) ==
    IF ~dbUp THEN Raise("OperationalError", "unable to open database file")
    ELSE [ok |-> TRUE,
          user |-> IF user_id \in DOMAIN store THEN Row(store, user_id) ELSE PyNone]

\* User.query.filter_by(user_id=<str>).first(): the integer column is compared
\* with the text, which matches a row only as that row's decimal literal
query_first_text(store, text, dbUp) ==
    IF ~dbUp THEN Raise("OperationalError", "unable to open database file")
    ELSE [ok |-> TRUE,
          user |-> IF \E u \in DOMAIN store : str(u) = text
                   THEN Row(store, CHOOSE u \in DOMAIN store : str(u) = text)
                   ELSE PyNone]

\* flask_jwt_extended.verify_jwt_in_request(optional): the header, the decoding
\* under JWT_SECRET_KEY, the identity claim, the token type; on success the
\* decoded token is stored in flask.g
verify_jwt_in_request(h, optional, cfg, t) ==
    IF ~h.present \/ h.scheme # "Bearer"
    THEN IF optional
         THEN [ok |-> TRUE, g |-> [set |-> TRUE, jwt |-> EmptyDict]]
         ELSE [ok |-> FALSE, exc |-> "NoAuthorizationError", g |-> NoJwt,
               msg |-> IF h.present
                       THEN "Missing 'Bearer' type in 'Authorization' header"
                       ELSE "Missing Authorization Header"]
    ELSE LET d == jwt_decode(h.token, cfg.JWT_SECRET_KEY, t)
         IN  IF ~d.ok THEN [ok |-> FALSE, exc |-> d.exc, msg |-> d.msg, g |-> NoJwt]
             ELSE IF "sub" \notin DOMAIN d.payload
                  THEN [ok |-> FALSE, exc |-> "JWTDecodeError",
                        msg |-> "Missing claim: sub", g |-> NoJwt]
             ELSE IF get(d.payload, "type") = PyStr("refresh")
                  THEN [ok |-> FALSE, exc |-> "WrongTokenError",
                        msg |-> "Only non-refresh tokens are allowed", g |-> NoJwt]
             ELSE [ok |-> TRUE, g |-> [set |-> TRUE, jwt |-> d.payload]]

\* flask_jwt_extended.get_jwt_identity(): the sub claim of the token in flask.g
get_jwt_identity(g) ==
    IF ~g.set
    THEN Raise("RuntimeError", "You must call verify_jwt_in_request() first")
    ELSE [ok |-> TRUE, value |-> get(g.jwt, "sub")]

\* The identity as the integer the users table is keyed by
user_id_of(identity) ==
    IF isinstance_str(identity) THEN int(identity.str)
    ELSE [ok |-> TRUE, value |-> identity.int]

get_current_user(g, store, dbUp) ==
    LET id == get_jwt_identity(g)
    IN  IF ~id.ok THEN PyNone
        ELSE IF ~Truthy(id.value) THEN PyNone
        ELSE LET n == user_id_of(id.value)
             IN  IF ~n.ok THEN PyNone
                 ELSE LET q == query_first(store, n.value, dbUp)
                      IN  IF q.ok THEN q.user ELSE PyNone

\* The wrapped route (routes/protected_example.py): it asks for the current user
\* and answers 200, or fails with an exception of its own
route(g, store, dbUp, fRaises) ==
    IF fRaises THEN Raise("RouteError", "route failed")
    ELSE [ok |-> TRUE, status |-> 200, identity |-> get_current_user(g, store, dbUp)]

\* What the client gets, with the number of times the route was entered and the
\* identity the route saw
Response(status, error, calls, identity) ==
    [status |-> status, error |-> error, calls |-> calls, identity |-> identity]

Rejected(error) == Response(401, error, 0, PyNone)

\* An exception nobody catches: Flask's 500
Unhandled(calls) == Response(500, "Internal Server Error", calls, PyNone)

\* ------------------------------------------------------ authorization gate
\* auth_required(optional)(f): the decorated function
auth_required(optional, h, cfg, store, dbUp, fRaises, t) ==
    LET v == verify_jwt_in_request(h, optional, cfg, t)
        f == route(v.g, store, dbUp, fRaises)
        \* except Exception as e: (lines 91-100)
        OnException(msg, calls) ==
            IF optional
            THEN IF f.ok THEN Response(f.status, "", calls + 1, f.identity)
                 ELSE Unhandled(calls + 1)
            ELSE Response(401, "Authentication failed: " \o msg, calls, PyNone)
        \* return f(*args, **kwargs), inside the try
        CallRoute ==
            IF f.ok THEN Response(f.status, "", 1, f.identity)
            ELSE OnException(f.msg, 1)
    IN  IF ~v.ok THEN OnException(v.msg, 0)
        ELSE LET current_user_id == get_jwt_identity(v.g).value
                 n == user_id_of(current_user_id)
                 q == query_first(store, n.value, dbUp)
             IN  IF optional
                 THEN IF ~Truthy(current_user_id) THEN CallRoute
                      ELSE IF ~n.ok THEN CallRoute
                      ELSE IF ~q.ok THEN OnException(q.msg, 0)
                      ELSE IF q.user # PyNone /\ ~q.user.is_active
                           THEN Rejected("User account is inactive")
                      ELSE CallRoute
                 ELSE IF ~Truthy(current_user_id)
                      THEN Rejected("Invalid token: no user identity")
                      ELSE IF ~n.ok THEN Rejected("Invalid user ID format")
                      ELSE IF ~q.ok THEN OnException(q.msg, 0)
                      ELSE IF q.user = PyNone THEN Rejected("User not found")
                      ELSE IF ~q.user.is_active THEN Rejected("Account is deactivated")
                      ELSE CallRoute

\* require_active_user(f): the decorated function
require_active_user(h, cfg, store, dbUp, fRaises, t) ==
    LET v == verify_jwt_in_request(h, FALSE, cfg, t)
        current_user == get_current_user(v.g, store, dbUp)
        f == route(v.g, store, dbUp, fRaises)
    IN  IF ~v.ok THEN Rejected("Authentication required: " \o v.msg)
        ELSE IF current_user = PyNone THEN Rejected("User not found")
        ELSE IF ~current_user.is_active THEN Rejected("Account is deactivated")
        ELSE IF f.ok THEN Response(f.status, "", 1, f.identity)
        ELSE Response(401, "Authentication required: " \o f.msg, 1, PyNone)

\* The JWT error handlers app.py registers, which answer an exception that leaves
\* a view function
jwt_error_handler(exc) ==
    IF exc = "ExpiredSignatureError" THEN "Token has expired"
    ELSE IF exc = "NoAuthorizationError" THEN "Token required"
    ELSE "Invalid token"

\* admin_required that lets the route run whoever get_current_user returns
admin_required_no_lookup_check(h, cfg, store, dbUp, fRaises, t) ==
    LET v == verify_jwt_in_request(h, FALSE, cfg, t)
        f == route(v.g, store, dbUp, fRaises)
    IN  IF ~v.ok THEN Rejected(jwt_error_handler(v.exc))
        ELSE IF f.ok THEN Response(f.status, "", 1, f.identity)
        ELSE Unhandled(1)

\* admin_required(f): @jwt_required() around the decorated function
admin_required(h, cfg, store, dbUp, fRaises, t) ==
    LET v == verify_jwt_in_request(h, FALSE, cfg, t)
        current_user == get_current_user(v.g, store, dbUp)
        f == route(v.g, store, dbUp, fRaises)
    IN  IF ~v.ok THEN Rejected(jwt_error_handler(v.exc))
        ELSE IF current_user = PyNone THEN Rejected("User not found")
        ELSE IF f.ok THEN Response(f.status, "", 1, f.identity)
        ELSE Unhandled(1)

\* validate_token_manual(token): (user, error)
validate_token_manual(h, cfg, store, dbUp, t) ==
    IF ~h.present
    THEN [user |-> PyNone,
          error |-> "Token validation error: 'NoneType' object has no attribute 'startswith'"]
    ELSE LET d == jwt_decode(h.token, cfg.JWT_SECRET_KEY, t)
             user_id == get(d.payload, "sub")
             q == query_first_text(store, user_id.str, dbUp)
         IN  IF ~d.ok
             THEN IF d.exc = "ExpiredSignatureError"
                  THEN [user |-> PyNone, error |-> "Token has expired"]
                  ELSE IF d.exc \in InvalidTokenErrors
                  THEN [user |-> PyNone, error |-> "Invalid token"]
                  ELSE [user |-> PyNone, error |-> "Token validation error: " \o d.msg]
             ELSE IF ~Truthy(user_id)
                  THEN [user |-> PyNone, error |-> "Invalid token: no user identity"]
             ELSE IF ~q.ok
                  THEN [user |-> PyNone, error |-> "Token validation error: " \o q.msg]
             ELSE IF q.user = PyNone
                  THEN [user |-> PyNone, error |-> "User not found"]
             ELSE IF ~q.user.is_active
                  THEN [user |-> PyNone, error |-> "Account is deactivated"]
             ELSE [user |-> q.user, error |-> ""]

\* auth_middleware_manual(f): the decorated function; the route reads
\* request.current_user
auth_middleware_manual(h, cfg, store, dbUp, fRaises, t) ==
    LET r == validate_token_manual(h, cfg, store, dbUp, t)
    IN  IF ~h.present THEN Rejected("Authorization header required")
        ELSE IF r.error # "" THEN Rejected(r.error)
        ELSE IF fRaises THEN Unhandled(1)
        ELSE Response(200, "", 1, r.user)

\* ------------------------------------------------------------- the inputs
\* What the last issuing call handed out: nothing yet, a token pair, or a
\* password-reset token
NothingIssued == [kind |-> "none"]

IssuedTokens ==
    IF issued.kind = "pair" THEN {issued.pair.access_token, issued.pair.refresh_token}
    ELSE IF issued.kind = "reset" THEN {issued.token}
    ELSE {}

\* Subject claims a presented token may carry: the decimal literals of the ids,
\* one id beyond the table, and texts that are no such literal
Subjects ==
    {str(u) : u \in 1..(MaxUsers + 1)} \cup {" 1", "abc", ""}

AccessClaims(sub, exp) ==
    [type |-> PyStr("access"), sub |-> PyStr(sub), exp |-> PyInt(exp)]

\* Tokens signed with the session secret by another holder of it
ForeignTokens ==
    {jwt_encode(AccessClaims(s, now + 1), config.JWT_SECRET_KEY) : s \in Subjects}
    \cup {jwt_encode([type |-> PyStr("access"), exp |-> PyInt(now + 1)],
                     config.JWT_SECRET_KEY),
          jwt_encode([type |-> PyStr("access"), sub |-> PyStr("1"),
                      nbf |-> PyInt(now + 1), exp |-> PyInt(0)],
                     config.JWT_SECRET_KEY),
          generate_password_reset_token(User(1, TRUE), config, now)}

\* Tokens an outsider makes up: signed with a key of their own, declaring no
\* algorithm, or no token at all
ForgedTokens ==
    {jwt_encode(AccessClaims("1", now + 1), "attacker-key"),
     jwt_encode(AccessClaims("1", 0), "attacker-key"),
     [form |-> "jws", alg |-> "none", key |-> "",
      payload |-> AccessClaims("1", now + 1)],
     Garbage}

PresentedTokens == IssuedTokens \cup ForeignTokens \cup ForgedTokens

Headers ==
    {NoHeader} \cup {Bearer(tok) : tok \in PresentedTokens}
    \cup {Bare(tok) : tok \in IssuedTokens}

Configs ==
    {app_config(env) : env \in [SECRET_KEY : EnvValues, JWT_SECRET_KEY : EnvValues]}

\* The configurations the gates are exercised under: nothing set in the
\* environment, and both secrets set to one value
GateConfigs ==
    {app_config([SECRET_KEY |-> v, JWT_SECRET_KEY |-> v]) : v \in EnvValues}

\* An operation of the application starts once the answer of the one before it
\* has left: resp then holds no answer.  No operation below changes the store,
\* the clock or the configuration, so every answer the application can give in a
\* state is given from that state
Idle == DOMAIN resp = {"op"}

\* ------------------------------------------------------------ the actions
Init ==
    /\ config \in GateConfigs
    /\ users = <<>>
    /\ now = 0
    /\ subsec = 0
    /\ issued = NothingIssued
    /\ trips = <<>>
    /\ resp = [op |-> "start"]

\* The account store's collaborator adds a row: the next id, active by default
CreateAccount ==
    /\ Len(users) < MaxUsers
    /\ users' = Append(users, TRUE)
    /\ resp' = [op |-> "create_account"]
    /\ UNCHANGED <<trips, config, now, subsec, issued>>

\* The account store's collaborator deactivates or reactivates an account
SetActive(u, active) ==
    /\ u \in DOMAIN users
    /\ users[u] # active
    /\ users' = [users EXCEPT ![u] = active]
    /\ resp' = [op |-> "set_active"]
    /\ UNCHANGED <<trips, config, now, subsec, issued>>

\* Time passes, to the start of a later second
Tick ==
    /\ \E t \in Instants : t > now /\ now' = t
    /\ subsec' = 0
    /\ resp' = [op |-> "tick"]
    /\ UNCHANGED <<trips, config, users, issued>>

\* Time passes within the second
TickFraction ==
    /\ subsec = 0
    /\ subsec' = 1
    /\ resp' = [op |-> "tick"]
    /\ UNCHANGED <<trips, config, users, now, issued>>

GenerateTokens(u) ==
    /\ u \in DOMAIN users
    /\ issued' = [kind |-> "pair", user |-> u, at |-> now, frac |-> subsec,
                  pair |-> generate_tokens(Row(users, u), config, now)]
    /\ resp' = [op |-> "generate_tokens"]
    /\ UNCHANGED <<trips, config, users, now, subsec>>

GeneratePasswordResetToken(u) ==
    /\ u \in DOMAIN users
    /\ issued' = [kind |-> "reset", user |-> u, at |-> now, frac |-> subsec,
                  token |-> generate_password_reset_token(Row(users, u), config, now)]
    /\ resp' = [op |-> "generate_password_reset_token"]
    /\ UNCHANGED <<trips, config, users, now, subsec>>

ValidateToken(tok) ==
    /\ Idle
    /\ resp' = [op |-> "validate_token", token |-> tok,
                result |-> validate_token(tok, config, now)]
    /\ UNCHANGED <<trips, config, users, now, subsec, issued>>

VerifyPasswordResetToken(tok) ==
    /\ Idle
    /\ resp' = [op |-> "verify_password_reset_token", token |-> tok,
                result |-> verify_password_reset_token(tok, config, now)]
    /\ UNCHANGED <<trips, config, users, now, subsec, issued>>

ValidateTokenManual(h, dbUp) ==
    /\ Idle
    /\ resp' = [op |-> "validate_token_manual", header |-> h, dbUp |-> dbUp,
                result |-> validate_token_manual(h, config, users, dbUp, now)]
    /\ UNCHANGED <<trips, config, users, now, subsec, issued>>

Policies == {"required", "optional", "active_user", "admin", "manual"}

\* The gate of the given policy around the route, for one request
decorated_function(policy, h, dbUp, fRaises) ==
    IF policy = "required"
    THEN auth_required(FALSE, h, config, users, dbUp, fRaises, now)
    ELSE IF policy = "optional"
    THEN auth_required(TRUE, h, config, users, dbUp, fRaises, now)
    ELSE IF policy = "active_user"
    THEN require_active_user(h, config, users, dbUp, fRaises, now)
    ELSE IF policy = "admin"
    THEN admin_required(h, config, users, dbUp, fRaises, now)
    ELSE auth_middleware_manual(h, config, users, dbUp, fRaises, now)

\* A gate that locks the account out when it rejects a request of the account
Request_locking(policy, h, dbUp, fRaises) ==
    LET out == decorated_function(policy, h, dbUp, fRaises)
        subject == {u \in DOMAIN users :
                        /\ h.present
                        /\ "payload" \in DOMAIN h.token
                        /\ "sub" \in DOMAIN h.token.payload
                        /\ h.token.payload["sub"] = PyStr(str(u))}
    IN  /\ Idle
        /\ resp' = [op |-> "request", policy |-> policy, header |-> h, dbUp |-> dbUp,
                    fRaises |-> fRaises, out |-> out]
        /\ users' = IF out.status = 401
                    THEN [u \in DOMAIN users |-> users[u] /\ u \notin subject]
                    ELSE users
        /\ UNCHANGED <<trips, config, now, subsec, issued>>

\* One request to a route behind a gate
Request(policy, h, dbUp, fRaises) ==
    /\ Idle
    /\ resp' = [op |-> "request", policy |-> policy, header |-> h, dbUp |-> dbUp,
                fRaises |-> fRaises,
                out |-> decorated_function(policy, h, dbUp, fRaises)]
    /\ UNCHANGED <<trips, config, users, now, subsec, issued>>

Next ==
    \/ CreateAccount
    \/ \E u \in UserIds, active \in BOOLEAN : SetActive(u, active)
    \/ Tick
    \/ \E u \in UserIds : GenerateTokens(u)
    \/ \E policy \in Policies, h \in Headers, dbUp \in BOOLEAN, fRaises \in BOOLEAN :
           Request(policy, h, dbUp, fRaises)

Spec == Init /\ [][Next]_vars

\* The token functions alone, over a table that stays as it is
TokenInit ==
    /\ config \in Configs
    /\ users \in [UserIds -> BOOLEAN]
    /\ now = 0
    /\ subsec = 0
    /\ issued = NothingIssued
    /\ trips = <<>>
    /\ resp = [op |-> "start"]

TokenNext ==
    \/ Tick
    \/ TickFraction
    \/ \E u \in UserIds : GenerateTokens(u)
    \/ \E u \in UserIds : GeneratePasswordResetToken(u)
    \/ \E tok \in PresentedTokens : ValidateToken(tok)
    \/ \E tok \in PresentedTokens : VerifyPasswordResetToken(tok)
    \/ \E h \in Headers, dbUp \in BOOLEAN : ValidateTokenManual(h, dbUp)

TokenSpec == TokenInit /\ [][TokenNext]_vars

\* =========================================================== the properties
\* Facts about a presented token, read off the token itself
IsJws(tok) == tok.form = "jws"
SignedWith(tok, key) == IsJws(tok) /\ tok.alg = "HS256" /\ tok.key = key
HasClaim(tok, c) == IsJws(tok) /\ c \in DOMAIN tok.payload
ExpiresAt(tok) == tok.payload["exp"].int
Unexpired(tok, t) == HasClaim(tok, "exp") /\ t < ExpiresAt(tok)
PastExpiry(tok, t) == HasClaim(tok, "exp") /\ t > ExpiresAt(tok)
NotBeforeOk(tok, t) == HasClaim(tok, "nbf") => tok.payload["nbf"].int <= t
TypeClaimIs(tok, ty) == HasClaim(tok, "type") /\ tok.payload["type"] = PyStr(ty)

\* The subject of the token reads as the id u
SubjectIs(tok, u) ==
    /\ HasClaim(tok, "sub")
    /\ isinstance_str(tok.payload["sub"])
    /\ tok.payload["sub"].str \in IntLiterals(u)

\* The request carries "Bearer <token>" whose token verifies under the session secret
BearsVerifiedToken(h) ==
    /\ h.present
    /\ h.scheme = "Bearer"
    /\ SignedWith(h.token, config.JWT_SECRET_KEY)
    /\ Unexpired(h.token, now)

IsRequest(policies) == resp.op = "request" /\ resp.policy \in policies

\* C1: under the Required and the Active-user policy the route is entered only if
\* the request bears a token that verifies (signature, expiry), whose subject
\* reads as an account id, and that account exists and is active in the store
C1_RouteOnlyForVerifiedActive ==
    (IsRequest({"required", "active_user"}) /\ resp.out.calls > 0) =>
        /\ BearsVerifiedToken(resp.header)
        /\ \E u \in DOMAIN users : SubjectIs(resp.header.token, u) /\ users[u]

C1_Witness ==
    /\ IsRequest({"active_user"})
    /\ resp.out.calls = 1
    /\ resp.out.status = 200
    /\ resp.header.token \in IssuedTokens

\* C2: a Required request bearing an issued, still unexpired access token whose
\* account has been deactivated since is rejected with 401 "Account is
\* deactivated", whatever the is_active claim of the token says
C2_DeactivatedAfterIssuanceRejected ==
    (/\ IsRequest({"required"})
     /\ issued.kind = "pair"
     /\ resp.header = Bearer(issued.pair.access_token)
     /\ now < issued.at + ACCESS_TTL
     /\ issued.pair.access_token.payload["is_active"] = PyBool(TRUE)
     /\ ~users[issued.user]
     /\ resp.dbUp) =>
        /\ resp.out.status = 401
        /\ resp.out.error = "Account is deactivated"
        /\ resp.out.calls = 0

C2_Witness ==
    /\ IsRequest({"required"})
    /\ issued.kind = "pair"
    /\ resp.header = Bearer(issued.pair.access_token)
    /\ now > issued.at
    /\ now < issued.at + ACCESS_TTL
    /\ issued.pair.access_token.payload["is_active"] = PyBool(TRUE)
    /\ ~users[issued.user]
    /\ resp.dbUp
    /\ resp.out.error = "Account is deactivated"

\* C3: under the Optional policy the route is entered for every request and no
\* request is answered with a rejection
C3_OptionalNeverRejects ==
    IsRequest({"optional"}) => (resp.out.calls > 0 /\ resp.out.status # 401)

\* C4: under the Required and the Active-user policy each kind of rejection is a
\* 401 with its own fixed message: no credential "Token required", an expired
\* token "Token has expired", a malformed or badly signed token "Invalid token",
\* a subject with no account "User not found", an inactive account "Account is
\* deactivated"
C4_RejectionMessages ==
    IsRequest({"required", "active_user"}) =>
        LET h == resp.header
            Says(m) == resp.out.status = 401 /\ resp.out.error = m
        IN  /\ ~h.present => Says("Token required")
            /\ (h.present /\ h.scheme = "Bearer") =>
                /\ (~IsJws(h.token) \/ ~SignedWith(h.token, config.JWT_SECRET_KEY))
                       => Says("Invalid token")
                /\ (/\ SignedWith(h.token, config.JWT_SECRET_KEY)
                    /\ NotBeforeOk(h.token, now)
                    /\ HasClaim(h.token, "exp") /\ ExpiresAt(h.token) <= now)
                       => Says("Token has expired")
                /\ (BearsVerifiedToken(h) /\ resp.dbUp) =>
                    \A u \in ParseRange :
                        SubjectIs(h.token, u) =>
                            /\ u \notin DOMAIN users => Says("User not found")
                            /\ (u \in DOMAIN users /\ ~users[u])
                                   => Says("Account is deactivated")

\* C5: under the Optional policy a request with no credential enters the route
\* with no identity, and the route sees an identity only when the request bears a
\* token that verifies and whose subject is an account of the store
C5_OptionalIdentity ==
    IsRequest({"optional"}) =>
        /\ ~resp.header.present =>
               /\ resp.out.calls > 0
               /\ resp.out.identity = PyNone
               /\ (~resp.fRaises => resp.out.status = 200)
        /\ resp.out.identity # PyNone =>
               /\ BearsVerifiedToken(resp.header)
               /\ \E u \in DOMAIN users :
                      /\ SubjectIs(resp.header.token, u)
                      /\ resp.out.identity = Row(users, u)

C5_Witness ==
    /\ IsRequest({"optional"})
    /\ resp.out.identity # PyNone
    /\ resp.out.status = 200
    /\ resp.header.token \in IssuedTokens

\* The token a verifier call was given
GivenToken ==
    IF resp.op = "validate_token_manual" THEN resp.header.token ELSE resp.token

\* The failure a session verifier call reports ("" when it reports none)
ReportedError ==
    IF resp.op = "validate_token"
    THEN IF resp.result.valid THEN "" ELSE resp.result.error
    ELSE resp.result.error

SessionVerifierCall ==
    \/ resp.op = "validate_token"
    \/ resp.op = "validate_token_manual" /\ resp.header.present

\* C6, for every token whatever its signature: once the time is past its
\* expires_at, session verification fails as "Token has expired", never as
\* "Invalid token"
C6_PastExpiryAlwaysExpired ==
    (SessionVerifierCall /\ PastExpiry(GivenToken, now)) =>
        ReportedError = "Token has expired"

\* C6, for the tokens that verify: for every token whose signature verifies
\* under the session secret and whose not-before time has come, once the time is
\* past its expires_at, session verification fails as "Token has expired"; and
\* the access token of an issued pair is so rejected at every time past issuance
\* plus the access TTL
C6_VerifiedPastExpiryIsExpired ==
    SessionVerifierCall =>
        /\ (/\ SignedWith(GivenToken, config.JWT_SECRET_KEY)
            /\ NotBeforeOk(GivenToken, now)
            /\ PastExpiry(GivenToken, now)) => ReportedError = "Token has expired"
        /\ (/\ issued.kind = "pair"
            /\ GivenToken = issued.pair.access_token
            /\ now > issued.at + ACCESS_TTL) => ReportedError = "Token has expired"

C6_Witness ==
    /\ resp.op = "validate_token"
    /\ issued.kind = "pair"
    /\ resp.token = issued.pair.access_token
    /\ now > issued.at + ACCESS_TTL
    /\ resp.result = [valid |-> FALSE, error |-> "Token has expired"]

\* C7: the access token generate_tokens returned for an account, given to
\* validate_token before its expiry, is reported valid with user_id the decimal
\* text of the account's id
C7_IssuedAccessTokenValidates ==
    (/\ resp.op = "validate_token"
     /\ issued.kind = "pair"
     /\ resp.token = issued.pair.access_token
     /\ now < issued.at + ACCESS_TTL) =>
        /\ resp.result.valid
        /\ resp.result.user_id = PyStr(str(issued.user))

C7_Witness ==
    /\ resp.op = "validate_token"
    /\ issued.kind = "pair"
    /\ resp.token = issued.pair.access_token
    /\ now > issued.at
    /\ resp.result.valid
    /\ resp.result.user_id = PyStr("1")

\* C8: validate_token never reports a token of generate_password_reset_token valid
C8_ResetTokenNeverValidSession ==
    (/\ resp.op = "validate_token"
     /\ issued.kind = "reset"
     /\ resp.token = issued.token) => ~resp.result.valid

\* C9: verify_password_reset_token returns no account id for a token whose type
\* claim is absent or is not "password_reset", the tokens of generate_tokens among
\* them, also when the token verifies under the reset secret
C9_WrongTypeNeverResets ==
    (/\ resp.op = "verify_password_reset_token"
     /\ ~TypeClaimIs(resp.token, "password_reset")) => resp.result = PyNone

C9_Witness ==
    /\ resp.op = "verify_password_reset_token"
    /\ issued.kind = "pair"
    /\ resp.token = issued.pair.access_token
    /\ SignedWith(resp.token, config.SECRET_KEY)
    /\ Unexpired(resp.token, now)
    /\ resp.result = PyNone

\* C10: the key of the reset tokens differs from the key of the session tokens in
\* every configuration the application starts with
C10_KeySeparation == config.SECRET_KEY # config.JWT_SECRET_KEY

\* The answer the gate of another policy gives to the request just answered
AnswerUnder(policy) ==
    decorated_function(policy, resp.header, resp.dbUp, resp.fRaises)

\* C11: for every request and every state of the store, the Active-user gate and
\* the Required gate decide alike (route entered or not) and, when they reject,
\* answer with the same status and the same error message
C11_ActiveUserSameAsRequired ==
    IsRequest({"required"}) =>
        LET r == resp.out
            a == AnswerUnder("active_user")
        IN  /\ (r.calls > 0) = (a.calls > 0)
            /\ r.status = a.status
            /\ r.status = 401 => r.error = a.error

\* The subject of the token is a text that reads as no integer
SubjectUnparseable(tok) ==
    /\ HasClaim(tok, "sub")
    /\ isinstance_str(tok.payload["sub"])
    /\ ~int(tok.payload["sub"].str).ok

\* C12: a request under the Required or the Active-user policy that bears a
\* verified token whose subject cannot be parsed to an integer is answered, not
\* crashed on: it is rejected with 401 and "User not found"
C12_UnparseableSubjectIsNotFound ==
    (/\ IsRequest({"required", "active_user"})
     /\ BearsVerifiedToken(resp.header)
     /\ SubjectUnparseable(resp.header.token)) =>
        /\ resp.out.status = 401
        /\ resp.out.error = "User not found"
        /\ resp.out.calls = 0

\* The request bears a verified token of a type the gate accepts, whose subject
\* reads as an integer: the gate goes on to look the account up
ReachesLookup(h) ==
    /\ BearsVerifiedToken(h)
    /\ NotBeforeOk(h.token, now)
    /\ ~TypeClaimIs(h.token, "refresh")
    /\ \E u \in ParseRange : SubjectIs(h.token, u)

\* C13: under the Required and the Active-user policy a request whose account
\* lookup raised (the store is unavailable) is never answered with the NotFound
\* rejection "User not found"
C13_StoreFailureIsNotNotFound ==
    (/\ IsRequest({"required", "active_user"})
     /\ ReachesLookup(resp.header)
     /\ ~resp.dbUp) => resp.out.error # "User not found"

\* The messages a client may be shown
FixedMessages ==
    {"Token has expired", "Token required", "Invalid token",
     "Account is deactivated", "User not found"}

\* C14: the error message of every rejection, under every gate policy, is one of
\* the fixed messages; no answer carries the text of an internal exception
C14_OnlyFixedMessages ==
    (IsRequest(Policies) /\ resp.out.status = 401) =>
        resp.out.error \in FixedMessages

\* Why a verifier holding the given key must refuse the token at time t, read off
\* the token: it is malformed or badly signed, it is not valid yet, it has
\* expired, or ("ok") none of these
FailureKind(tok, key, t) ==
    IF ~SignedWith(tok, key) THEN "malformed"
    ELSE IF ~NotBeforeOk(tok, t) THEN "immature"
    ELSE IF HasClaim(tok, "exp") /\ ExpiresAt(tok) <= t THEN "expired"
    ELSE "ok"

\* The same for the reset verifier, which also refuses a token of another type
ResetFailureKind(tok, key, t) ==
    IF FailureKind(tok, key, t) = "ok" /\ ~TypeClaimIs(tok, "password_reset")
    THEN "wrong_type"
    ELSE FailureKind(tok, key, t)

\* validate_token answers an expired token and a malformed or badly signed one
\* differently
SessionFailuresTellApart ==
    resp.op = "validate_token" =>
        \A other \in PresentedTokens :
            LET k1 == FailureKind(resp.token, config.JWT_SECRET_KEY, now)
                k2 == FailureKind(other, config.JWT_SECRET_KEY, now)
            IN  ({k1, k2} = {"expired", "malformed"}) =>
                    validate_token(other, config, now) # resp.result

Returned(result) == "exc" \notin DOMAIN result

\* An input a session verifier has to refuse at time t: no token at all, a
\* malformed, badly signed, not yet valid or expired one, one of another type than
\* the session types, or one without the subject claim
BadSessionInput(tok, t) ==
    \/ FailureKind(tok, config.JWT_SECRET_KEY, t) # "ok"
    \/ ~(TypeClaimIs(tok, "access") \/ TypeClaimIs(tok, "refresh"))
    \/ ~HasClaim(tok, "sub")

\* The same for the reset verifier: another type than "password_reset", or no
\* user_id claim
BadResetInput(tok, t) ==
    \/ ResetFailureKind(tok, config.SECRET_KEY, t) # "ok"
    \/ ~HasClaim(tok, "user_id")

\* C16: validate_token, validate_token_manual and verify_password_reset_token
\* are total: whatever they are given, no exception leaves them, and for a
\* structurally malformed, badly signed, expired or wrong-type token and for one
\* with missing claims what they return is a failure value
C16_VerifiersTotal ==
    /\ resp.op = "validate_token" =>
           /\ Returned(resp.result)
           /\ BadSessionInput(resp.token, now) =>
                  (~resp.result.valid /\ resp.result.error # "")
    /\ resp.op = "validate_token_manual" =>
           /\ Returned(resp.result)
           /\ (~resp.header.present \/ BadSessionInput(resp.header.token, now)) =>
                  (resp.result.user = PyNone /\ resp.result.error # "")
    /\ resp.op = "verify_password_reset_token" =>
           /\ Returned(resp.result)
           /\ BadResetInput(resp.token, now) => resp.result = PyNone

\* C17: a token signed with any secret other than the session secret is refused
\* by validate_token and by validate_token_manual with "Invalid token", whatever
\* its claims and its expiry: it is never reported valid and never as expired
C17_OtherSecretIsInvalidToken ==
    (/\ SessionVerifierCall
     /\ IsJws(GivenToken)
     /\ GivenToken.key # config.JWT_SECRET_KEY) =>
        /\ ReportedError = "Invalid token"
        /\ resp.op = "validate_token" => ~resp.result.valid
        /\ resp.op = "validate_token_manual" => resp.result.user = PyNone

C17_Witness ==
    /\ resp.op = "validate_token"
    /\ IsJws(resp.token)
    /\ resp.token.alg = "HS256"
    /\ resp.token.key = "attacker-key"
    /\ PastExpiry(resp.token, now)
    /\ resp.result = [valid |-> FALSE, error |-> "Invalid token"]

\* Twice the time, in seconds, between the clock reading of the last issuing call
\* and the clock now
HalfSecondsSinceIssued == 2 * (now - issued.at) + subsec - issued.frac

\* C18, counting the hour from the moment of issuance: the token
\* generate_password_reset_token made for an account, given to
\* verify_password_reset_token, yields the account's user_id at every time less
\* than one hour after it was issued, and None at every time from one hour after
\* it was issued onward
C18_ResetRoundTrip ==
    (/\ resp.op = "verify_password_reset_token"
     /\ issued.kind = "reset"
     /\ resp.token = issued.token) =>
        /\ HalfSecondsSinceIssued < 2 * RESET_TTL => resp.result = PyInt(issued.user)
        /\ HalfSecondsSinceIssued >= 2 * RESET_TTL => resp.result = PyNone

\* C18, counting the hour from the whole second of issuance: the token yields the
\* account's user_id at every time before its exp claim, which is the whole second
\* it was issued in plus one hour, and None from then on: so None at every time
\* from one hour after it was issued onward, and the user_id at every time up to
\* one hour less one second after it was issued
C18_ResetRoundTripUntilExp ==
    (/\ resp.op = "verify_password_reset_token"
     /\ issued.kind = "reset"
     /\ resp.token = issued.token) =>
        /\ ExpiresAt(resp.token) = issued.at + RESET_TTL
        /\ now < issued.at + RESET_TTL => resp.result = PyInt(issued.user)
        /\ now >= issued.at + RESET_TTL => resp.result = PyNone
        /\ HalfSecondsSinceIssued >= 2 * RESET_TTL => resp.result = PyNone
        /\ HalfSecondsSinceIssued <= 2 * (RESET_TTL - 1) =>
               resp.result = PyInt(issued.user)

C18_Witness ==
    /\ resp.op = "verify_password_reset_token"
    /\ issued.kind = "reset"
    /\ resp.token = issued.token
    /\ issued.frac = 1
    /\ now = issued.at + RESET_TTL
    /\ HalfSecondsSinceIssued < 2 * RESET_TTL
    /\ resp.result = PyNone

\* The time a token is good for by its own claims: from nbf up to exp, in seconds
Lifetime(tok) == ExpiresAt(tok) - tok.payload["nbf"].int

\* C19: in every pair generate_tokens returns the access token's lifetime is
\* strictly shorter than the refresh token's, both tokens carry the subject
\* str(user.user_id), token_type is "Bearer", and expires_in is the access
\* token's lifetime in seconds
C19_PairShape ==
    issued.kind = "pair" =>
        LET access == issued.pair.access_token
            refresh == issued.pair.refresh_token
        IN  /\ Lifetime(access) < Lifetime(refresh)
            /\ access.payload["nbf"].int = issued.at
            /\ refresh.payload["nbf"].int = issued.at
            /\ access.payload["sub"] = PyStr(str(issued.user))
            /\ refresh.payload["sub"] = PyStr(str(issued.user))
            /\ issued.pair.token_type = "Bearer"
            /\ issued.pair.expires_in = Lifetime(access)

C19_Witness ==
    /\ resp.op = "generate_tokens"
    /\ issued.kind = "pair"
    /\ issued.at > 0
    /\ issued.pair.expires_in = ACCESS_TTL
    /\ TypeClaimIs(issued.pair.access_token, "access")
    /\ TypeClaimIs(issued.pair.refresh_token, "refresh")

\* The subject of the request's token reads as the id of an account of the store
Resolves(h) == \E u \in DOMAIN users : SubjectIs(h.token, u)

\* C20: admin_required rejects with 401, without entering the route, every
\* request with no token, with a token that is invalid or expired, or with a
\* subject that is no account of the store; and it enters the route for every
\* request whose token verifies and whose subject is an account, whatever the
\* account is: there is no check of a role, nor of anything else of the account
C20_AdminRejectsUnauthenticatedOnly ==
    IsRequest({"admin"}) =>
        /\ (~BearsVerifiedToken(resp.header) \/ ~Resolves(resp.header)) =>
               /\ resp.out.status = 401
               /\ resp.out.calls = 0
               /\ resp.out.error \in
                      {"Token required", "Token has expired", "Invalid token",
                       "User not found"}
        /\ (/\ ReachesLookup(resp.header)
            /\ Resolves(resp.header)
            /\ resp.dbUp) =>
               /\ resp.out.calls = 1
               /\ resp.out.status # 401
               /\ \E u \in DOMAIN users :
                      /\ SubjectIs(resp.header.token, u)
                      /\ (~resp.fRaises => resp.out.identity = Row(users, u))

C20_Witness ==
    /\ IsRequest({"admin"})
    /\ issued.kind = "pair"
    /\ resp.header = Bearer(issued.pair.access_token)
    /\ ~users[issued.user]
    /\ resp.out.calls = 1
    /\ resp.out.status = 200
    /\ resp.out.identity = User(issued.user, FALSE)

\* Every operation of the subsystem next to the collaborator that keeps the
\* accounts, under the configuration of an environment that sets no secret
FrameInit ==
    /\ config = app_config([SECRET_KEY |-> "unset", JWT_SECRET_KEY |-> "unset"])
    /\ users = <<>>
    /\ now = 0
    /\ subsec = 0
    /\ issued = NothingIssued
    /\ trips = <<>>
    /\ resp = [op |-> "start"]

FrameNext ==
    \/ CreateAccount
    \/ \E u \in UserIds, active \in BOOLEAN : SetActive(u, active)
    \/ Tick
    \/ \E u \in UserIds : GenerateTokens(u)
    \/ \E u \in UserIds : GeneratePasswordResetToken(u)
    \/ \E tok \in PresentedTokens : ValidateToken(tok)
    \/ \E tok \in PresentedTokens : VerifyPasswordResetToken(tok)
    \/ \E h \in Headers, dbUp \in BOOLEAN : ValidateTokenManual(h, dbUp)
    \/ \E policy \in Policies, h \in Headers, dbUp \in BOOLEAN, fRaises \in BOOLEAN :
           Request(policy, h, dbUp, fRaises)

FrameSpec == FrameInit /\ [][FrameNext]_vars

\* The operations of the subsystem: issuance, verification and the gates
SubsystemOps ==
    {"generate_tokens", "generate_password_reset_token", "validate_token",
     "verify_password_reset_token", "validate_token_manual", "request"}

\* C21: no step of token issuance, of token verification or of a gate, under any
\* policy, changes the account store: no account is created, changed or deleted
\* by it, and no is_active flag is changed
C21_StoreUnchanged ==
    [][resp'.op \in SubsystemOps => users' = users]_vars

C21_Witness ==
    /\ IsRequest({"required"})
    /\ Len(users) > 0
    /\ ~users[1]
    /\ resp.out.error = "Account is deactivated"

\* C22: under the Required and the Active-user policy a request whose route was
\* entered, authentication having succeeded, is never answered with 401, also
\* when the route raised: 401 is answered only when the verification of the token
\* or the resolution of the identity failed
C22_RouteFailureIsNot401 ==
    (IsRequest({"required", "active_user"}) /\ resp.out.status = 401) =>
        /\ resp.out.calls = 0
        /\ \/ ~BearsVerifiedToken(resp.header)
           \/ ~ReachesLookup(resp.header)
           \/ ~resp.dbUp
           \/ ~\E u \in DOMAIN users : SubjectIs(resp.header.token, u) /\ users[u]

\* C23: under the Required, the Optional, the Active-user and the admin policy
\* the route is entered at most once for a request, also when it raised the
\* first time it was entered
C23_RouteEnteredAtMostOnce ==
    IsRequest({"required", "optional", "active_user", "admin"}) =>
        resp.out.calls <= 1

\* ------------------------------------------- a request, step by step
\* A request to a route behind auth_required() in two steps, the gate and then
\* the route's own lookup, with the collaborator's writes in between
InRoute == resp.op = "in_route"

\* auth_required() up to "return f(*args, **kwargs)": the request is rejected, or
\* control passes into the route with the token in flask.g and the account the
\* gate has looked up and found active
GateAdmits(h, dbUp) ==
    /\ Idle
    /\ LET out == auth_required(FALSE, h, config, users, dbUp, FALSE, now)
           v == verify_jwt_in_request(h, FALSE, config, now)
           q == query_first(users, user_id_of(get_jwt_identity(v.g).value).value, dbUp)
       IN  resp' = IF out.calls = 0
                   THEN [op |-> "request", policy |-> "required", header |-> h,
                         dbUp |-> dbUp, fRaises |-> FALSE, out |-> out]
                   ELSE [op |-> "in_route", header |-> h, g |-> v.g,
                         checked |-> q.user]
    /\ UNCHANGED <<trips, config, users, now, subsec, issued>>

\* The collaborator deactivates or reactivates an account while the request is
\* in the route
SetActiveDuring(u, active) ==
    /\ InRoute
    /\ u \in DOMAIN users
    /\ users[u] # active
    /\ users' = [users EXCEPT ![u] = active]
    /\ UNCHANGED <<trips, config, now, subsec, issued, resp>>

\* get_profile: the route's get_current_user(), a second query in the session of
\* the request.  It returns the row as it is now or, the row being already in
\* the session's identity map, the object the gate loaded; None if the lookup
\* fails
RouteLookup(dbUp) ==
    /\ InRoute
    /\ LET fresh == get_current_user(resp.g, users, dbUp)
       IN  \E seen \in {fresh} \cup (IF fresh = PyNone THEN {} ELSE {resp.checked}) :
               resp' = [op |-> "route_done", header |-> resp.header,
                        checked |-> resp.checked, seen |-> seen,
                        status |-> IF seen = PyNone THEN 401 ELSE 200]
    /\ UNCHANGED <<trips, config, users, now, subsec, issued>>

RaceNext ==
    \/ CreateAccount
    \/ \E u \in UserIds, active \in BOOLEAN : SetActive(u, active)
    \/ Tick
    \/ \E u \in UserIds : GenerateTokens(u)
    \/ \E h \in Headers, dbUp \in BOOLEAN : GateAdmits(h, dbUp)
    \/ \E u \in UserIds, active \in BOOLEAN : SetActiveDuring(u, active)
    \/ \E dbUp \in BOOLEAN : RouteLookup(dbUp)

RaceSpec == Init /\ [][RaceNext]_vars

\* C24: in a route behind auth_required(), whenever the route's own
\* get_current_user() returns an account, it is the account the gate checked and
\* that account is active in the store at the time the route reads it, also when
\* the account was deactivated between the gate's lookup and the route's
C24_RouteSeesCheckedActiveAccount ==
    (resp.op = "route_done" /\ resp.seen # PyNone) =>
        /\ resp.seen.user_id = resp.checked.user_id
        /\ users[resp.seen.user_id]

\* C25: the refresh token of a pair generate_tokens returned, presented as the
\* bearer credential before its expiry, is rejected by auth_required() and by
\* auth_middleware_manual, refused by validate_token_manual, and not reported
\* valid by validate_token
C25_RefreshTokenNeverSessionCredential ==
    issued.kind = "pair" =>
        LET refresh == issued.pair.refresh_token
        IN  /\ (IsRequest({"required", "manual"}) /\ resp.header = Bearer(refresh)) =>
                   (resp.out.calls = 0 /\ resp.out.status = 401)
            /\ (resp.op = "validate_token_manual" /\ resp.header = Bearer(refresh)) =>
                   resp.result.user = PyNone
            /\ (resp.op = "validate_token" /\ resp.token = refresh) =>
                   ~resp.result.valid

\* C26: admin_required never enters the route for an account whose is_active
\* flag is false at the time of the request: a request bearing a token that
\* verifies, of a deactivated account, is rejected with 401 as under Required
C26_AdminRejectsDeactivated ==
    (/\ IsRequest({"admin"})
     /\ ReachesLookup(resp.header)
     /\ \E u \in DOMAIN users : SubjectIs(resp.header.token, u) /\ ~users[u]) =>
        /\ resp.out.calls = 0
        /\ resp.out.status = 401
        /\ resp.out.status = AnswerUnder("required").status

\* ------------------------------------------------------------- the login
\* A text as the sequence of its characters
RECURSIVE Join(_)
Join(chars) ==
    IF chars = <<>> THEN "" ELSE Head(chars) \o Join(Tail(chars))

\* str.lower(), character by character
lower_char(c) ==
    IF c = "U" THEN "u" ELSE IF c = "B" THEN "b" ELSE IF c = "P" THEN "p" ELSE c

lower(chars) == [i \in DOMAIN chars |-> lower_char(chars[i])]

\* str.strip(): leading and trailing blanks removed
RECURSIVE lstrip(_)
lstrip(chars) ==
    IF chars # <<>> /\ Head(chars) = " " THEN lstrip(Tail(chars)) ELSE chars

RECURSIVE rstrip(_)
rstrip(chars) ==
    IF chars # <<>> /\ chars[Len(chars)] = " "
    THEN rstrip(SubSeq(chars, 1, Len(chars) - 1))
    ELSE chars

strip(chars) == rstrip(lstrip(chars))

\* The credentials of account u: the address it registered with and its password
EmailChars(u) == <<"u", "s", "e", "r", str(u), "@", "b", ".", "c", "o", "m">>
Password(u) == "Passw0rd" \o str(u)

\* bcrypt.hashpw and bcrypt.checkpw
bcrypt_hashpw(password) == [bcrypt |-> password]
bcrypt_checkpw(password, hash) == hash.bcrypt = password

\* User.check_password of the row of account u
check_password(u, password) == bcrypt_checkpw(password, bcrypt_hashpw(Password(u)))

\* User.query.filter_by(email_address=email).first()
query_first_email(store, email, dbUp) ==
    IF ~dbUp THEN Raise("OperationalError", "unable to open database file")
    ELSE [ok |-> TRUE,
          user |-> IF \E u \in DOMAIN store : Email(u) = email
                   THEN Row(store, CHOOSE u \in DOMAIN store : Email(u) = email)
                   ELSE PyNone]

\* What POST /auth/login answers
LoginError(status, error) == [status |-> status, error |-> error]

\* login that checks the account's status before the password
login_status_first(data, cfg, store, dbUp, t) ==
    IF data = PyNone \/ DOMAIN data = {} THEN LoginError(400, "No data provided")
    ELSE LET email == Join(lower(strip(IF "email" \in DOMAIN data
                                       THEN data.email ELSE <<>>)))
             password == IF "password" \in DOMAIN data THEN data.password ELSE ""
             q == query_first_email(store, email, dbUp)
         IN  IF email = "" \/ password = ""
             THEN LoginError(400, "Email and password are required")
             ELSE IF ~q.ok THEN LoginError(500, "Login failed: " \o q.msg)
             ELSE IF q.user = PyNone
                  THEN LoginError(401, "Invalid email or password")
             ELSE IF ~q.user.is_active
                  THEN LoginError(401, "Account is deactivated")
             ELSE IF ~check_password(q.user.user_id, password)
                  THEN LoginError(401, "Invalid email or password")
             ELSE [status |-> 200, message |-> "Login successful",
                   user |-> q.user, tokens |-> generate_tokens(q.user, cfg, t)]

\* login without the check of the account's status
login_any_status(data, cfg, store, dbUp, t) ==
    IF data = PyNone \/ DOMAIN data = {} THEN LoginError(400, "No data provided")
    ELSE LET email == Join(lower(strip(IF "email" \in DOMAIN data
                                       THEN data.email ELSE <<>>)))
             password == IF "password" \in DOMAIN data THEN data.password ELSE ""
             q == query_first_email(store, email, dbUp)
         IN  IF email = "" \/ password = ""
             THEN LoginError(400, "Email and password are required")
             ELSE IF ~q.ok THEN LoginError(500, "Login failed: " \o q.msg)
             ELSE IF q.user = PyNone
                  THEN LoginError(401, "Invalid email or password")
             ELSE IF ~check_password(q.user.user_id, password)
                  THEN LoginError(401, "Invalid email or password")
             ELSE [status |-> 200, message |-> "Login successful",
                   user |-> q.user, tokens |-> generate_tokens(q.user, cfg, t)]

\* login(): POST /auth/login with the JSON body data
login(data, cfg, store, dbUp, t) ==
    IF data = PyNone \/ DOMAIN data = {} THEN LoginError(400, "No data provided")
    ELSE LET email == Join(lower(strip(IF "email" \in DOMAIN data
                                       THEN data.email ELSE <<>>)))
             password == IF "password" \in DOMAIN data THEN data.password ELSE ""
             q == query_first_email(store, email, dbUp)
         IN  IF email = "" \/ password = ""
             THEN LoginError(400, "Email and password are required")
             ELSE IF ~q.ok THEN LoginError(500, "Login failed: " \o q.msg)
             ELSE IF q.user = PyNone
                  THEN LoginError(401, "Invalid email or password")
             ELSE IF ~check_password(q.user.user_id, password)
                  THEN LoginError(401, "Invalid email or password")
             ELSE IF ~q.user.is_active
                  THEN LoginError(401, "Account is deactivated")
             ELSE [status |-> 200, message |-> "Login successful",
                   user |-> q.user, tokens |-> generate_tokens(q.user, cfg, t)]

\* The JSON bodies a client posts: none, an empty object, and objects with an
\* address (as registered, with blanks and capitals, of nobody, blank) and a
\* password (an account's, another, none)
RawEmails ==
    {EmailChars(u) : u \in 1..(MaxUsers + 1)}
    \cup {<<" ", "U", "s", "e", "r", "1", "@", "B", ".", "c", "o", "m", " ">>,
          <<" ">>}

LoginPasswords == {Password(u) : u \in UserIds} \cup {"wrong-pass1", ""}

LoginBodies ==
    {PyNone, EmptyDict}
    \cup {[email |-> e, password |-> p] : e \in RawEmails, p \in LoginPasswords}
    \cup {[email |-> e] : e \in RawEmails}

\* POST /auth/login; the pair it answers with is the pair last handed out
Login(data, dbUp) ==
    /\ Idle
    /\ LET out == login(data, config, users, dbUp, now)
       IN  /\ resp' = [op |-> "login", data |-> data, dbUp |-> dbUp, out |-> out]
           /\ issued' = IF out.status = 200
                        THEN [kind |-> "pair", user |-> out.user.user_id, at |-> now,
                              frac |-> subsec, pair |-> out.tokens]
                        ELSE issued
    /\ UNCHANGED <<trips, config, users, now, subsec>>

LoginNext ==
    \/ CreateAccount
    \/ \E u \in UserIds, active \in BOOLEAN : SetActive(u, active)
    \/ Tick
    \/ \E data \in LoginBodies, dbUp \in BOOLEAN : Login(data, dbUp)

LoginSpec == Init /\ [][LoginNext]_vars

\* The address and the password a login body carries, as login reads them
PostedEmail ==
    IF resp.data # PyNone /\ "email" \in DOMAIN resp.data
    THEN Join(lower(strip(resp.data.email))) ELSE ""

PostedPassword ==
    IF resp.data # PyNone /\ "password" \in DOMAIN resp.data
    THEN resp.data.password ELSE ""

\* C27: login answers with a token pair only when an account with the posted
\* address, trimmed and lower-cased, exists, the posted password is that
\* account's and the account is active, and the pair is that account's; a
\* deactivated account posting its password is answered 401 "Account is
\* deactivated", with no tokens
C27_LoginIssuesOnlyAfterChecks ==
    resp.op = "login" =>
        /\ "tokens" \in DOMAIN resp.out =>
               \E u \in DOMAIN users :
                   /\ Email(u) = PostedEmail
                   /\ PostedPassword = Password(u)
                   /\ users[u]
                   /\ resp.out.status = 200
                   /\ resp.out.tokens = generate_tokens(Row(users, u), config, now)
        /\ \A u \in DOMAIN users :
               (/\ Email(u) = PostedEmail
                /\ PostedPassword = Password(u)
                /\ ~users[u]
                /\ resp.dbUp) =>
                   resp.out = LoginError(401, "Account is deactivated")

C27_Witness ==
    /\ resp.op = "login"
    /\ 1 \in DOMAIN users
    /\ PostedEmail = Email(1)
    /\ resp.data.email # EmailChars(1)
    /\ PostedPassword = Password(1)
    /\ ~users[1]
    /\ resp.out = LoginError(401, "Account is deactivated")

\* The body posted, with another address in place of its own
WithEmail(data, e) == [k \in DOMAIN data |-> IF k = "email" THEN e ELSE data[k]]

TripUsers == {1, 2}

\* The days a request can name
Days == 0..MaxDay

\* date.isoformat(): YYYY-MM-DD
isoformat(d) ==
    IF d = 0 THEN "2029-12-31"
    ELSE "2030-01-" \o (IF d < 10 THEN "0" ELSE "") \o str(d)

\* datetime.strptime(s, '%Y-%m-%d').date(): ValueError unless s is a date
strptime(s) ==
    IF \E d \in Days : isoformat(d) = s
    THEN [ok |-> TRUE, value |-> CHOOSE d \in Days : isoformat(d) = s]
    ELSE Raise("ValueError", "time data does not match format '%Y-%m-%d'")

\* date.today() when the clock reads t seconds
today(t) == 1 + (t \div 86400)

\* A row of the trips table
Trip(id, user_id, destination, start_date, end_date) ==
    [id |-> id, user_id |-> user_id, destination |-> destination,
     start_date |-> start_date, end_date |-> end_date]

\* Trip.to_dict(): the dates as ISO strings
to_dict(trip) ==
    [id |-> trip.id, user_id |-> trip.user_id, destination |-> trip.destination,
     start_date |-> isoformat(trip.start_date),
     end_date |-> isoformat(trip.end_date)]

\* The ids of the rows the table holds
TripIds(store) == {i \in DOMAIN store : store[i] # PyNone}

\* SQLite gives a new row the id after the largest id in the table, so the
\* ids of deleted rows at the end of the table are given again
RECURSIVE trim(_)
trim(store) ==
    IF store # <<>> /\ store[Len(store)] = PyNone
    THEN trim(SubSeq(store, 1, Len(store) - 1))
    ELSE store

\* validate_trip_data(data, is_update): the list of error messages
validate_trip_data(data, is_update, t) ==
    LET destination ==
            strip(IF "destination" \in DOMAIN data THEN data.destination ELSE <<>>)
        destErrors ==
            IF ~is_update \/ "destination" \in DOMAIN data
            THEN IF destination = <<>> THEN <<"Destination is required">>
                 ELSE IF Len(destination) < 2
                      THEN <<"Destination must be at least 2 characters long">>
                 ELSE IF Len(destination) > 255
                      THEN <<"Destination must be less than 255 characters">>
                 ELSE <<>>
            ELSE <<>>
        startErrors ==
            IF ~is_update \/ "start_date" \in DOMAIN data
            THEN IF "start_date" \notin DOMAIN data \/ data.start_date = ""
                 THEN <<"Start date is required">>
                 ELSE LET start_date == strptime(data.start_date)
                      IN  IF ~start_date.ok
                          THEN <<"Start date must be in YYYY-MM-DD format">>
                          ELSE IF start_date.value < today(t)
                               THEN <<"Start date cannot be in the past">>
                          ELSE <<>>
            ELSE <<>>
        endErrors ==
            IF ~is_update \/ "end_date" \in DOMAIN data
            THEN IF "end_date" \notin DOMAIN data \/ data.end_date = ""
                 THEN <<"End date is required">>
                 ELSE LET end_date == strptime(data.end_date)
                      IN  IF ~end_date.ok
                          THEN <<"End date must be in YYYY-MM-DD format">>
                          \* if 'start_date' in data: (line 72)
                          ELSE IF "start_date" \in DOMAIN data
                               THEN LET start_date == strptime(data.start_date)
                                    IN  \* its ValueError lands in the same except
                                        IF ~start_date.ok
                                        THEN <<"End date must be in YYYY-MM-DD format">>
                                        ELSE IF end_date.value <= start_date.value
                                             THEN <<"End date must be after start date">>
                                        ELSE <<>>
                               ELSE <<>>
            ELSE <<>>
    IN  destErrors \o startErrors \o endErrors

\* What a trip handler gives back: the status, the JSON body and the table
TripAnswer(status, body, store) == [status |-> status, body |-> body, trips |-> store]

\* Trip.query.filter_by(id=trip_id).first(): the lookup without the owner
query_trip_any_owner(store, trip_id, user_id) ==
    IF trip_id \in TripIds(store) THEN store[trip_id] ELSE PyNone

\* Trip.query.filter_by(id=trip_id, user_id=user_id).first()
query_trip(store, trip_id, user_id) ==
    IF trip_id \in TripIds(store) /\ store[trip_id].user_id = user_id
    THEN store[trip_id]
    ELSE PyNone

\* Trip.destination.ilike('%' + text + '%')
ilike(destination, text) ==
    \E i \in 1..(Len(destination) + 1) : \E j \in (i - 1)..Len(destination) :
        lower(SubSeq(destination, i, j)) = lower(text)

\* The rows with the ids a query keeps, newest first
\* (order_by(Trip.created_at.desc()))
RECURSIVE newest_first(_, _, _)
newest_first(store, ids, i) ==
    IF i = 0 THEN <<>>
    ELSE (IF i \in ids THEN <<to_dict(store[i])>> ELSE <<>>)
         \o newest_first(store, ids, i - 1)

\* create_trip(): POST /trips (lines 114-182)
create_trip(current_user, data, store, t) ==
    IF current_user = PyNone
    THEN TripAnswer(401, [error |-> "User not found"], store)
    ELSE IF DOMAIN data = {}
    THEN TripAnswer(400, [error |-> "No data provided"], store)
    ELSE LET errors == validate_trip_data(data, FALSE, t)
         IN  IF errors # <<>>
             THEN TripAnswer(400, [error |-> "Validation failed", details |-> errors],
                             store)
             ELSE LET new_trip == Trip(Len(store) + 1, current_user.user_id,
                                       strip(data.destination),
                                       strptime(data.start_date).value,
                                       strptime(data.end_date).value)
                  IN  TripAnswer(201, [message |-> "Trip created successfully",
                                       trip |-> to_dict(new_trip)],
                                 Append(store, new_trip))

\* get_user_trips(): GET /trips (lines 186-250), the first page
get_user_trips(current_user, args, store) ==
    IF current_user = PyNone
    THEN TripAnswer(401, [error |-> "User not found"], store)
    ELSE LET keep(trip) ==
                 /\ trip.user_id = current_user.user_id
                 /\ ("destination" \in DOMAIN args /\ args.destination # <<>>)
                        => ilike(trip.destination, args.destination)
             found == {i \in TripIds(store) : keep(store[i])}
         IN  TripAnswer(200, [trips |-> newest_first(store, found, Len(store))], store)

\* get_trip(trip_id): GET /trips/<id> (lines 254-291)
get_trip(current_user, trip_id, store) ==
    IF current_user = PyNone
    THEN TripAnswer(401, [error |-> "User not found"], store)
    ELSE LET trip == query_trip(store, trip_id, current_user.user_id)
         IN  IF trip = PyNone
             THEN TripAnswer(404, [error |-> "Trip not found"], store)
             ELSE TripAnswer(200, [trip |-> to_dict(trip)], store)

\* update_trip(trip_id): PUT /trips/<id> (lines 295-382)
update_trip(current_user, trip_id, data, store, t) ==
    IF current_user = PyNone
    THEN TripAnswer(401, [error |-> "User not found"], store)
    ELSE IF DOMAIN data = {}
    THEN TripAnswer(400, [error |-> "No data provided"], store)
    ELSE LET trip == query_trip(store, trip_id, current_user.user_id)
             errors == validate_trip_data(data, TRUE, t)
             updated ==
                 Trip(trip.id, trip.user_id,
                      IF "destination" \in DOMAIN data
                      THEN strip(data.destination) ELSE trip.destination,
                      IF "start_date" \in DOMAIN data
                      THEN strptime(data.start_date).value ELSE trip.start_date,
                      IF "end_date" \in DOMAIN data
                      THEN strptime(data.end_date).value ELSE trip.end_date)
         IN  IF trip = PyNone
             THEN TripAnswer(404, [error |-> "Trip not found"], store)
             ELSE IF errors # <<>>
             THEN TripAnswer(400, [error |-> "Validation failed", details |-> errors],
                             store)
             ELSE TripAnswer(200, [message |-> "Trip updated successfully",
                                   trip |-> to_dict(updated)],
                             [store EXCEPT ![trip_id] = updated])

\* delete_trip(trip_id): DELETE /trips/<id> (lines 386-437)
delete_trip(current_user, trip_id, store) ==
    IF current_user = PyNone
    THEN TripAnswer(401, [error |-> "User not found"], store)
    ELSE LET trip == query_trip(store, trip_id, current_user.user_id)
         IN  IF trip = PyNone
             THEN TripAnswer(404, [error |-> "Trip not found"], store)
             ELSE TripAnswer(200,
                             [message |-> "Trip deleted successfully",
                              deleted_trip |->
                                  [id |-> trip.id, destination |-> trip.destination,
                                   start_date |-> isoformat(trip.start_date)]],
                             trim([store EXCEPT ![trip_id] = PyNone]))

\* search_trips(): GET /trips/search (lines 443-507)
search_trips(current_user, args, store) ==
    LET given(k) == k \in DOMAIN args /\ args[k] # ""
        keep(trip) ==
            /\ trip.user_id = current_user.user_id
            /\ ("destination" \in DOMAIN args /\ args.destination # <<>>)
                   => ilike(trip.destination, args.destination)
            /\ given("start_date") => trip.start_date >= strptime(args.start_date).value
            /\ given("end_date") => trip.end_date <= strptime(args.end_date).value
    IN  IF current_user = PyNone
        THEN TripAnswer(401, [error |-> "User not found"], store)
        ELSE IF given("start_date") /\ ~strptime(args.start_date).ok
        THEN TripAnswer(400, [error |-> "Invalid start_date format. Use YYYY-MM-DD"],
                        store)
        ELSE IF given("end_date") /\ ~strptime(args.end_date).ok
        THEN TripAnswer(400, [error |-> "Invalid end_date format. Use YYYY-MM-DD"],
                        store)
        ELSE LET found == {i \in TripIds(store) : keep(store[i])}
                 trips_found == newest_first(store, found, Len(store))
             IN  TripAnswer(200, [trips |-> trips_found, total |-> Len(trips_found)],
                            store)

\* ------------------------------------------------------ the trip requests
\* The JSON object of a request, or its query string: each key absent or given
Absent == [given |-> FALSE]
Given(v) == [given |-> TRUE, value |-> v]

Body(destination, start_date, end_date) ==
    update(update(IF destination.given THEN [destination |-> destination.value]
                  ELSE EmptyDict,
                  IF start_date.given THEN [start_date |-> start_date.value]
                  ELSE EmptyDict),
           IF end_date.given THEN [end_date |-> end_date.value] ELSE EmptyDict)

Destinations == {<<" ", "R", "o", "m", "e">>, <<" ">>}
DateStrings == {isoformat(d) : d \in Days} \cup {"tomorrow"}

TripBodies ==
    {Body(d, s, e) :
        d \in {Absent} \cup {Given(x) : x \in Destinations},
        s \in {Absent} \cup {Given(x) : x \in DateStrings},
        e \in {Absent} \cup {Given(x) : x \in DateStrings}}

TripArgs ==
    {Body(d, s, e) :
        d \in {Absent, Given(<<"r", "o">>)},
        s \in {Absent} \cup {Given(x) : x \in DateStrings},
        e \in {Absent} \cup {Given(x) : x \in DateStrings}}

\* No header, or the access token login gives one of the accounts
TripHeaders ==
    {NoHeader} \cup
    {Bearer(generate_tokens(Row(users, u), config, now).access_token) :
        u \in DOMAIN users}

\* @auth_required() around a trip handler: the handler's answer when the gate
\* lets the request in, the gate's own answer otherwise
behind_gate(h) == auth_required(FALSE, h, config, users, TRUE, FALSE, now)

Requester(gate) == IF gate.identity = PyNone THEN 0 ELSE gate.identity.user_id

TripResponse(op, gate, trip_id, out) ==
    [op |-> op, requester |-> Requester(gate), trip_id |-> trip_id,
     status |-> IF gate.calls = 0 THEN gate.status ELSE out.status,
     body |-> IF gate.calls = 0 THEN [error |-> gate.error] ELSE out.body]

TripInit ==
    /\ config = app_config([SECRET_KEY |-> "unset", JWT_SECRET_KEY |-> "unset"])
    /\ users = [u \in TripUsers |-> TRUE]
    /\ now = 0
    /\ subsec = 0
    /\ issued = NothingIssued
    /\ trips = <<>>
    /\ resp = [op |-> "start"]

\* Each request below is the decorated handler: gate is what @auth_required()
\* answers for the request's header, and the handler runs when the gate called it
CreateTrip(gate, data) ==
    LET out == create_trip(gate.identity, data, trips, now)
    IN  /\ Idle
        /\ Len(trips) < MaxTrips
        /\ resp' = TripResponse("create_trip", gate, 0, out)
        /\ trips' = IF gate.calls = 0 THEN trips ELSE out.trips
        /\ UNCHANGED <<config, users, now, subsec, issued>>

GetUserTrips(gate, args) ==
    LET out == get_user_trips(gate.identity, args, trips)
    IN  /\ Idle
        /\ resp' = TripResponse("get_user_trips", gate, 0, out)
        /\ UNCHANGED <<trips, config, users, now, subsec, issued>>

GetTrip(gate, trip_id) ==
    LET out == get_trip(gate.identity, trip_id, trips)
    IN  /\ Idle
        /\ resp' = TripResponse("get_trip", gate, trip_id, out)
        /\ UNCHANGED <<trips, config, users, now, subsec, issued>>

UpdateTrip(gate, trip_id, data) ==
    LET out == update_trip(gate.identity, trip_id, data, trips, now)
    IN  /\ Idle
        /\ resp' = TripResponse("update_trip", gate, trip_id, out)
        /\ trips' = IF gate.calls = 0 THEN trips ELSE out.trips
        /\ UNCHANGED <<config, users, now, subsec, issued>>

DeleteTrip(gate, trip_id) ==
    LET out == delete_trip(gate.identity, trip_id, trips)
    IN  /\ Idle
        /\ resp' = TripResponse("delete_trip", gate, trip_id, out)
        /\ trips' = IF gate.calls = 0 THEN trips ELSE out.trips
        /\ UNCHANGED <<config, users, now, subsec, issued>>

SearchTrips(gate, args) ==
    LET out == search_trips(gate.identity, args, trips)
    IN  /\ Idle
        /\ resp' = TripResponse("search_trips", gate, 0, out)
        /\ UNCHANGED <<trips, config, users, now, subsec, issued>>

\* The answer has left; the next request can start
Answered ==
    /\ ~Idle
    /\ resp' = [op |-> "answered"]
    /\ UNCHANGED <<trips, config, users, now, subsec, issued>>

\* What the gate answers for each header a request can carry
Gates == {behind_gate(h) : h \in TripHeaders}

TripNext ==
    \/ Idle /\ \E gate \in Gates, data \in TripBodies : CreateTrip(gate, data)
    \/ Idle /\ \E gate \in Gates, args \in TripArgs : GetUserTrips(gate, args)
    \/ Idle /\ \E gate \in Gates, trip_id \in 1..MaxTrips : GetTrip(gate, trip_id)
    \/ Idle /\ \E gate \in Gates, trip_id \in 1..MaxTrips, data \in TripBodies :
                   UpdateTrip(gate, trip_id, data)
    \/ Idle /\ \E gate \in Gates, trip_id \in 1..MaxTrips : DeleteTrip(gate, trip_id)
    \/ Idle /\ \E gate \in Gates, args \in TripArgs : SearchTrips(gate, args)
    \/ Answered

TripSpec == TripInit /\ [][TripNext]_vars

\* ------------------------------------------------------------- C28, C29
\* The requester asks for a trip that is in the table and is another account's
OthersTrip ==
    /\ resp'.op \in {"get_trip", "update_trip", "delete_trip"}
    /\ resp'.requester # 0
    /\ resp'.trip_id \in TripIds(trips)
    /\ trips[resp'.trip_id].user_id # resp'.requester

\* The list and search answers hold the requester's trips only
OwnTripsOnly ==
    (resp'.op \in {"get_user_trips", "search_trips"} /\ resp'.status = 200)
        => \A i \in DOMAIN resp'.body.trips :
               resp'.body.trips[i].user_id = resp'.requester

C29_EndAfterStart ==
    \A i \in TripIds(trips) : trips[i].end_date > trips[i].start_date

====
